---- MODULE Spec2Model ----
(***************************************************************************)
(* tipg.db (src/tipg/database.py): the per-connection initializer          *)
(* connection_factory.__call__, and the pool lifecycle connect_to_db /     *)
(* close_db_connection, together with the pooling primitive they drive.    *)
(*                                                                         *)
(* Text is a sequence of one-character strings, so that the join of line   *)
(* 48, the concatenation of line 55 and the server's reading of the        *)
(* search_path list are computed, not assumed.                             *)
(***************************************************************************)
EXTENDS Integers, Sequences, FiniteSets, TLC

\* ---------------------------------------------------------------- bounds
MaxSchemas == 1
MaxFiles == 2
MaxSecondaries == 2
MaxOpens == 2
MaxPools == 3
MaxConns == 3
MaxFailures == 1
MaxLent == 1

\* ------------------------------------------------------------------ text
Comma == ","

\* Schema names a caller may configure: any str is accepted (List[str]).
SchemaNames == { <<"a">>, <<"a", Comma, "b">> }

\* search_path values a server may hold before initialization.
ServerPaths == { <<>>, <<"p", Comma, "q">> }

\* Locators of user SQL files.
SqlFiles == { "f1", "f2" }

\* Secondary database URLs.
SecondaryUrls == { "db1", "db2" }

PG_TEMP == <<"p", "g", "_", "t", "e", "m", "p">>

DB_CATALOG_FILE == "dbcatalog.sql"

SeqsUpTo(S, n) == UNION { [1..k -> S] : k \in 0..n }

\* ",".join(parts)
RECURSIVE Join(_)
Join(parts) ==
    IF Len(parts) = 0 THEN <<>>
    ELSE IF Len(parts) = 1 THEN parts[1]
    ELSE parts[1] \o <<Comma>> \o Join(Tail(parts))

\* The server's reading of a search_path value: the list of its
\* comma-separated elements (one more element than it has commas).
RECURSIVE SplitList(_, _)
SplitList(s, cur) ==
    IF Len(s) = 0 THEN <<cur>>
    ELSE IF Head(s) = Comma THEN <<cur>> \o SplitList(Tail(s), <<>>)
    ELSE SplitList(Tail(s), Append(cur, Head(s)))

Elements(s) == SplitList(s, <<>>)

\* The server rejects a list with an empty element ("pg_temp,", "a,,b").
ValidList(s) == \A k \in 1..Len(Elements(s)) : Len(Elements(s)[k]) > 0

\* What a probe of the effective search path returns.
ProbePath(s) == IF Len(s) = 0 THEN <<>> ELSE Elements(s)

\* ----------------------------------------------------------------- state
VARIABLES
    app_state,   \* app.state: the attributes set so far ("pool", "pool_list")
    factories,   \* the connection_factory objects built, by number
    pools,       \* the pools the primitive was asked to create, by number
    conns,       \* the physical connections, by number
    task,        \* the lifecycle call in progress (startup, shutdown: one
                 \* at a time): connect_to_db / close_db_connection
    opens,       \* how many times connect_to_db was called
    last_call,   \* what the last finished lifecycle call did
    last_ok,     \* the pools of the last connect_to_db call that returned
    close_log,   \* the pools closed, in the order they were closed
    refused,     \* the pools on which a checkout was refused
    config,      \* the schemas and user_sql_files the application passes
    failures,    \* how many times the environment made a call fail
    server_path  \* the search_path the servers give a new session

vars == <<app_state, factories, pools, conns, task, opens, last_call,
          last_ok, close_log, refused, config, failures, server_path>>

PoolIds == 1..Len(pools)
ConnIds == 1..Len(conns)

\* ------------------------------------------- connection_factory (22-66)

\* connection_factory.__init__: None and [] both give [].
Factory(schemas, user_sql_files) ==
    [schemas |-> schemas, user_sql_files |-> user_sql_files]

\* The factory a connection's pool was given as init=.
Self(c) == factories[pools[conns[c].pool].init]

\* Line 48: ",".join(["pg_temp", *self.schemas])
SchemasText(self) == Join(<<PG_TEMP>> \o self.schemas)

\* As if line 48 were self.schemas.insert(0, "pg_temp").
SchemasLeftInserted(self) == <<PG_TEMP>> \o self.schemas

\* As if line 48 took the names off the list with self.schemas.pop(0).
SchemasLeftPopped(self) ==
    IF Len(self.schemas) = 0 THEN << >> ELSE Tail(self.schemas)

\* Line 48 builds a new list: self.schemas is what it was.
SchemasLeft(self) == self.schemas

\* Lines 53-57: '{schemas},' || current_setting('search_path', false)
SearchPathValue(self, current) == SchemasText(self) \o <<Comma>> \o current

\* The statement the coroutine hands to the connection at (pc, i).
Statement(self, pc, i) ==
    CASE pc = "json"    -> "set_type_codec:json"
      [] pc = "jsonb"   -> "set_type_codec:jsonb"
      [] pc = "path"    -> "set_config:search_path"
      [] pc = "user"    -> self.user_sql_files[i]
      [] pc = "catalog" -> DB_CATALOG_FILE

\* As if line 66 stood before the loop of lines 62-63.
NextStepCatalogFirst(self, pc, i) ==
    CASE pc = "json"  -> [pc |-> "jsonb", i |-> 0]
      [] pc = "jsonb" -> [pc |-> "path", i |-> 0]
      [] pc = "path"  -> [pc |-> "catalog", i |-> 0]
      [] pc = "catalog" ->
            IF Len(self.user_sql_files) > 0
            THEN [pc |-> "user", i |-> 1]
            ELSE [pc |-> "done", i |-> 0]
      [] pc = "user"  ->
            IF i < Len(self.user_sql_files)
            THEN [pc |-> "user", i |-> i + 1]
            ELSE [pc |-> "done", i |-> 0]

\* As if the loop of lines 62-63 left after its first file.
NextStepFirstFileOnly(self, pc, i) ==
    CASE pc = "json"  -> [pc |-> "jsonb", i |-> 0]
      [] pc = "jsonb" -> [pc |-> "path", i |-> 0]
      [] pc = "path"  ->
            IF Len(self.user_sql_files) > 0
            THEN [pc |-> "user", i |-> 1]
            ELSE [pc |-> "catalog", i |-> 0]
      [] pc = "user"  -> [pc |-> "catalog", i |-> 0]
      [] pc = "catalog" -> [pc |-> "done", i |-> 0]

\* Where control is once the await at (pc, i) has returned.
NextStep(self, pc, i) ==
    CASE pc = "json"  -> [pc |-> "jsonb", i |-> 0]
      [] pc = "jsonb" -> [pc |-> "path", i |-> 0]
      [] pc = "path"  ->
            IF Len(self.user_sql_files) > 0
            THEN [pc |-> "user", i |-> 1]
            ELSE [pc |-> "catalog", i |-> 0]
      [] pc = "user"  ->
            IF i < Len(self.user_sql_files)
            THEN [pc |-> "user", i |-> i + 1]
            ELSE [pc |-> "catalog", i |-> 0]
      [] pc = "catalog" -> [pc |-> "done", i |-> 0]

StepPcs == {"json", "jsonb", "path", "user", "catalog"}

\* The hook is running on connection c.
Running(c) == conns[c].status = "init" /\ conns[c].pc \in StepPcs

\* The connection after the await at its pc returned.
Returned(c) ==
    LET n == NextStep(Self(c), conns[c].pc, conns[c].i)
    IN  [conns[c] EXCEPT !.pc = n.pc, !.i = n.i, !.await = FALSE,
                         !.acked = @ + 1]

\* What the driver raises when a statement fails: the server's or the
\* network's error, which names no step of __call__ and no file.
DriverError == [cause |-> "driver", stage |-> "none", resource |-> "none"]

\* What read_text() raises: an OSError naming the path.
FileError(path) == [cause |-> "os", stage |-> "none", resource |-> path]

NoError == [cause |-> "none", stage |-> "none", resource |-> "none"]

\* As if the awaits stood in a try whose handler only logs.
RaisedAndSwallowed(c) ==
    [Returned(c) EXCEPT !.failed_at = Len(conns[c].sent)]

\* The connection after an exception left __call__ at its pc.
Raised(c) ==
    [conns[c] EXCEPT !.pc = "raised", !.await = FALSE,
                     !.failed_at = Len(conns[c].sent),
                     !.error = DriverError]

SystemUnchanged ==
    UNCHANGED <<app_state, pools, task, opens, last_call, last_ok,
                close_log, refused, config, server_path>>

\* The coroutine reaches its next await and hands over the statement.
Issue(c) ==
    /\ Running(c)
    /\ ~conns[c].await
    /\ conns' = [conns EXCEPT ![c].await = TRUE,
                    ![c].sent = Append(@, Statement(Self(c), conns[c].pc,
                                                    conns[c].i))]
    /\ factories' =
          IF conns[c].pc = "path"
          THEN [factories EXCEPT ![pools[conns[c].pool].init].schemas =
                    SchemasLeft(Self(c))]
          ELSE factories
    /\ UNCHANGED failures
    /\ SystemUnchanged

\* Lines 63, 66: read_text() of a file that cannot be read raises.
ReadTextRaises(c) ==
    /\ failures < MaxFailures
    /\ failures' = failures + 1
    /\ Running(c)
    /\ ~conns[c].await
    /\ conns[c].pc \in {"user", "catalog"}
    /\ conns' = [conns EXCEPT ![c] =
                    [Raised(c) EXCEPT
                        !.failed_at = @ + 1,
                        !.error = FileError(Statement(Self(c), conns[c].pc,
                                                      conns[c].i))]]
    /\ UNCHANGED factories
    /\ SystemUnchanged

\* Lines 39-41
JsonCodecSet(c) ==
    /\ Running(c)
    /\ conns[c].await
    /\ conns[c].pc = "json"
    /\ conns' = [conns EXCEPT ![c] =
                    [Returned(c) EXCEPT !.codecs = @ \cup {"json"}]]
    /\ UNCHANGED factories
    /\ UNCHANGED failures
    /\ SystemUnchanged

\* Lines 42-44
JsonbCodecSet(c) ==
    /\ Running(c)
    /\ conns[c].await
    /\ conns[c].pc = "jsonb"
    /\ conns' = [conns EXCEPT ![c] =
                    [Returned(c) EXCEPT !.codecs = @ \cup {"jsonb"}]]
    /\ UNCHANGED factories
    /\ UNCHANGED failures
    /\ SystemUnchanged

\* Lines 51-59, the server accepting the new value.
SearchPathSet(c) ==
    /\ Running(c)
    /\ conns[c].await
    /\ conns[c].pc = "path"
    /\ ValidList(SearchPathValue(Self(c), conns[c].search_path))
    /\ conns' = [conns EXCEPT ![c] =
                    [Returned(c) EXCEPT !.search_path =
                        SearchPathValue(Self(c), conns[c].search_path)]]
    /\ UNCHANGED factories
    /\ UNCHANGED failures
    /\ SystemUnchanged

\* Lines 51-59, the server rejecting a malformed list.
SearchPathRejected(c) ==
    /\ Running(c)
    /\ conns[c].await
    /\ conns[c].pc = "path"
    /\ ~ValidList(SearchPathValue(Self(c), conns[c].search_path))
    /\ conns' = [conns EXCEPT ![c] = Raised(c)]
    /\ UNCHANGED factories
    /\ UNCHANGED failures
    /\ SystemUnchanged

\* Lines 62-63
UserSqlExecuted(c) ==
    /\ Running(c)
    /\ conns[c].await
    /\ conns[c].pc = "user"
    /\ conns' = [conns EXCEPT ![c] =
                    [Returned(c) EXCEPT !.executed =
                        Append(@, Self(c).user_sql_files[conns[c].i])]]
    /\ UNCHANGED factories
    /\ UNCHANGED failures
    /\ SystemUnchanged

\* Line 66
CatalogExecuted(c) ==
    /\ Running(c)
    /\ conns[c].await
    /\ conns[c].pc = "catalog"
    /\ conns' = [conns EXCEPT ![c] =
                    [Returned(c) EXCEPT !.executed =
                        Append(@, DB_CATALOG_FILE)]]
    /\ UNCHANGED factories
    /\ UNCHANGED failures
    /\ SystemUnchanged

\* The awaited call fails (the server or the network refuses it): the
\* exception leaves __call__, which has no handler.
StatementRaises(c) ==
    /\ failures < MaxFailures
    /\ failures' = failures + 1
    /\ Running(c)
    /\ conns[c].await
    /\ conns' = [conns EXCEPT ![c] = Raised(c)]
    /\ UNCHANGED factories
    /\ SystemUnchanged

\* ------------------------------------------------- the pooling primitive

db_min_conn_size == 1
db_max_conn_size == 2

ConnsOf(p) == { c \in ConnIds : conns[c].pool = p }
LiveConnsOf(p) ==
    { c \in ConnIds : conns[c].pool = p
                      /\ conns[c].status \in {"init", "idle", "lent"} }

\* Connections the pools still to be opened will need.
Reserved ==
    (MaxPools - Len(pools))
    + Cardinality({ p \in PoolIds : pools[p].state = "opening"
                                    /\ ConnsOf(p) = {} })

\* A physical connection fresh from the server, entering pool p.
FreshConn(p) ==
    [pool |-> p,
     status |-> IF pools[p].init = 0 THEN "idle" ELSE "init",
     pc |-> IF pools[p].init = 0 THEN "none" ELSE "json",
     i |-> 0, await |-> FALSE, sent |-> <<>>, acked |-> 0,
     executed |-> <<>>, codecs |-> {},
     search_path |-> server_path,
     init_calls |-> IF pools[p].init = 0 THEN 0 ELSE 1,
     failed_at |-> 0,
     error |-> NoError]

\* The primitive opens a physical connection for pool p and invokes the
\* pool's init hook on it: the first one while the pool is opening
\* (min_size), later ones on demand up to max_size.
NewConnection(p) ==
    /\ p \in PoolIds
    /\ Len(conns) < MaxConns
    /\ \/ /\ pools[p].state = "opening"
          /\ Cardinality(ConnsOf(p)) < pools[p].sizing.min_size
       \/ /\ pools[p].state = "ready"
          /\ Cardinality(LiveConnsOf(p)) < pools[p].sizing.max_size
          /\ Len(conns) + Reserved < MaxConns
    /\ conns' = Append(conns, FreshConn(p))
    /\ pools' = IF pools[p].init = 0 /\ pools[p].state = "opening"
                THEN [pools EXCEPT ![p].state = "ready"]
                ELSE pools
    /\ UNCHANGED <<app_state, factories, task, opens, last_call, last_ok,
                   close_log, refused, config, failures, server_path>>

\* The server at the pool's URL cannot be reached.
PoolConnectFails(p) ==
    /\ failures < MaxFailures
    /\ failures' = failures + 1
    /\ p \in PoolIds
    /\ pools[p].state = "opening"
    /\ ConnsOf(p) = {}
    /\ pools' = [pools EXCEPT ![p].state = "failed"]
    /\ UNCHANGED <<app_state, factories, conns, task, opens, last_call,
                   last_ok, close_log, refused, config, server_path>>

\* The hook returned: the connection joins the pool's free list, and a
\* pool that was opening is ready.
HookReturns(c) ==
    /\ c \in ConnIds
    /\ conns[c].status = "init"
    /\ conns[c].pc = "done"
    /\ conns' = [conns EXCEPT ![c].status = "idle"]
    /\ pools' = IF pools[conns[c].pool].state = "opening"
                THEN [pools EXCEPT ![conns[c].pool].state = "ready"]
                ELSE pools
    /\ UNCHANGED <<app_state, factories, task, opens, last_call, last_ok,
                   close_log, refused, config, failures, server_path>>

\* The hook raised: the connection is discarded, and a pool that was
\* opening has failed.
HookRaises(c) ==
    /\ c \in ConnIds
    /\ conns[c].status = "init"
    /\ conns[c].pc = "raised"
    /\ conns' = [conns EXCEPT ![c].status = "discarded"]
    /\ pools' = IF pools[conns[c].pool].state = "opening"
                THEN [pools EXCEPT ![conns[c].pool].state = "failed"]
                ELSE pools
    /\ UNCHANGED <<app_state, factories, task, opens, last_call, last_ok,
                   close_log, refused, config, failures, server_path>>

\* As if the primitive lent connections whatever the pool's state.
AcquireAnyState(c) ==
    /\ c \in ConnIds
    /\ conns[c].status = "idle"
    /\ Cardinality({ d \in ConnIds : conns[d].status = "lent" }) < MaxLent
    /\ conns' = [conns EXCEPT ![c].status = "lent"]
    /\ UNCHANGED <<app_state, factories, pools, task, opens, last_call,
                   last_ok, close_log, refused, config, failures,
                   server_path>>

\* A caller checks connection c out of its pool.
Acquire(c) ==
    /\ c \in ConnIds
    /\ pools[conns[c].pool].state = "ready"
    /\ conns[c].status = "idle"
    /\ Cardinality({ d \in ConnIds : conns[d].status = "lent" }) < MaxLent
    /\ conns' = [conns EXCEPT ![c].status = "lent"]
    /\ UNCHANGED <<app_state, factories, pools, task, opens, last_call,
                   last_ok, close_log, refused, config, failures, server_path>>

\* The caller gives connection c back.
Release(c) ==
    /\ c \in ConnIds
    /\ conns[c].status = "lent"
    /\ conns' = [conns EXCEPT ![c].status = "idle"]
    /\ UNCHANGED <<app_state, factories, pools, task, opens, last_call,
                   last_ok, close_log, refused, config, failures, server_path>>

\* A checkout on a pool that is closing or closed is refused.
AcquireRefused(p) ==
    /\ p \in PoolIds
    /\ pools[p].state \in {"closing", "closed"}
    /\ refused' = refused \cup {p}
    /\ UNCHANGED <<app_state, factories, pools, conns, task, opens,
                   last_call, last_ok, close_log, config, failures, server_path>>

\* Pool.close(): once every connection is back, they are closed and the
\* pool is closed.
PoolClosed(p) ==
    /\ p \in PoolIds
    /\ pools[p].state = "closing"
    /\ \A c \in ConnsOf(p) : conns[c].status \notin {"init", "lent"}
    /\ pools' = [pools EXCEPT ![p].state = "closed"]
    /\ conns' = [c \in ConnIds |->
                    IF conns[c].pool = p /\ conns[c].status = "idle"
                    THEN [conns[c] EXCEPT !.status = "closed"]
                    ELSE conns[c]]
    /\ close_log' = Append(close_log, p)
    /\ UNCHANGED <<app_state, factories, task, opens, last_call, last_ok,
                   refused, config, failures, server_path>>

\* ------------------------------------------------ connect_to_db (69-105)

HasAttr(s, a) == a \in DOMAIN s

\* app.state.<a> = v
SetAttr(s, a, v) ==
    [x \in DOMAIN s \cup {a} |-> IF x = a THEN v ELSE s[x]]

\* As if create_pool_b were called without init=.
InitArgMissing(f) == 0

\* Lines 89, 102: init=con_init
InitArg(f) == f

\* Lines 85-88, 98-101: the sizing arguments, all read from settings.
PoolSizing ==
    [min_size |-> db_min_conn_size,
     max_size |-> db_max_conn_size,
     max_queries |-> "db_max_queries",
     max_inactive_connection_lifetime |-> "db_max_inactive_conn_lifetime"]

\* asyncpg.create_pool_b(url, ..., init=...): a new pool, not yet awaited.
CreatePool(url, f) ==
    [url |-> url, init |-> InitArg(f), state |-> "opening",
     sizing |-> PoolSizing]

\* As if line 104 were pool_list.insert(0, pool).
ListPrepend(pool_list, pool) == <<pool>> \o pool_list

\* Line 104: pool_list.append(pool)
ListAppend(pool_list, pool) == Append(pool_list, pool)

Idle ==
    [op |-> "none", pc |-> "idle", factory |-> 0, urls |-> <<>>, i |-> 0,
     pool_list |-> <<>>, cur |-> 0, primary |-> 0]

NoCall ==
    [op |-> "none", ok |-> FALSE, stage |-> "", primary |-> 0,
     secondaries |-> <<>>, urls |-> <<>>, before |-> << >>]

\* The record of a connect_to_db call that returns or raises now.
OpenOutcome(ok, stage, primary, secondaries) ==
    [op |-> "open", ok |-> ok, stage |-> stage, primary |-> primary,
     secondaries |-> secondaries, urls |-> task.urls,
     before |-> last_call.before]

\* Lines 78-91, up to the await of the primary pool.
OpenCall(urls) ==
    /\ task.op = "none"
    /\ opens < MaxOpens
    /\ Len(pools) + 1 + Len(urls) <= MaxPools
    /\ factories' = Append(factories,
                        Factory(config.schemas, config.user_sql_files))
    /\ pools' = Append(pools,
                    CreatePool("primary", Len(factories) + 1))
    /\ task' = [Idle EXCEPT !.op = "open", !.pc = "await_primary",
                            !.factory = Len(factories) + 1, !.urls = urls,
                            !.cur = Len(pools) + 1]
    /\ opens' = opens + 1
    /\ last_call' = [last_call EXCEPT !.before = app_state]
    /\ UNCHANGED <<app_state, conns, last_ok, close_log, refused, config, failures, server_path>>

\* Line 83 assigns app.state.pool; lines 93-96 start the first secondary
\* pool, or the call returns when there is none.
OpenPrimaryReturns ==
    /\ task.pc = "await_primary"
    /\ pools[task.cur].state = "ready"
    /\ app_state' = SetAttr(app_state, "pool", task.cur)
    /\ IF Len(task.urls) > 0
       THEN /\ pools' = Append(pools,
                    CreatePool(task.urls[1], task.factory))
            /\ task' = [task EXCEPT !.pc = "await_secondary", !.i = 1,
                            !.primary = task.cur, !.cur = Len(pools) + 1]
            /\ UNCHANGED <<last_call, last_ok>>
       ELSE /\ task' = Idle
            /\ last_call' = OpenOutcome(TRUE, "", task.cur, <<>>)
            /\ last_ok' = [valid |-> TRUE, primary |-> task.cur,
                           secondaries |-> <<>>]
            /\ UNCHANGED pools
    /\ UNCHANGED <<factories, conns, opens, close_log, refused, config, failures, server_path>>

\* As if line 83 stored the pool in app.state.pool before awaiting it.
OpenPrimaryRaisesPublished ==
    /\ task.pc = "await_primary"
    /\ pools[task.cur].state = "failed"
    /\ task' = Idle
    /\ last_call' = OpenOutcome(FALSE, "primary", 0, <<>>)
    /\ app_state' = SetAttr(app_state, "pool", task.cur)
    /\ UNCHANGED <<factories, pools, conns, opens, last_ok,
                   close_log, refused, config, failures, server_path>>

\* Line 83: the await raises; connect_to_db has no handler.
OpenPrimaryRaises ==
    /\ task.pc = "await_primary"
    /\ pools[task.cur].state = "failed"
    /\ task' = Idle
    /\ last_call' = OpenOutcome(FALSE, "primary", 0, <<>>)
    /\ UNCHANGED <<app_state, factories, pools, conns, opens, last_ok,
                   close_log, refused, config, failures, server_path>>

\* As if the assignment of line 105 stood inside the loop.
OpenSecondaryReturnsPublishing ==
    /\ task.pc = "await_secondary"
    /\ pools[task.cur].state = "ready"
    /\ app_state' = SetAttr(app_state, "pool_list",
                            ListAppend(task.pool_list, task.cur))
    /\ IF task.i < Len(task.urls)
       THEN /\ pools' = Append(pools,
                    CreatePool(task.urls[task.i + 1], task.factory))
            /\ task' = [task EXCEPT !.i = @ + 1,
                            !.pool_list = ListAppend(@, task.cur),
                            !.cur = Len(pools) + 1]
            /\ UNCHANGED <<last_call, last_ok>>
       ELSE /\ task' = Idle
            /\ last_call' = OpenOutcome(TRUE, "", task.primary,
                                        ListAppend(task.pool_list, task.cur))
            /\ last_ok' = [valid |-> TRUE, primary |-> task.primary,
                           secondaries |->
                               ListAppend(task.pool_list, task.cur)]
            /\ UNCHANGED pools
    /\ UNCHANGED <<factories, conns, opens, close_log, refused, config, failures, server_path>>

\* Lines 96-105: the pool joins pool_list; the next one is started, or
\* line 105 publishes the list and the call returns.
OpenSecondaryReturns ==
    /\ task.pc = "await_secondary"
    /\ pools[task.cur].state = "ready"
    /\ IF task.i < Len(task.urls)
       THEN /\ pools' = Append(pools,
                    CreatePool(task.urls[task.i + 1], task.factory))
            /\ task' = [task EXCEPT !.i = @ + 1,
                            !.pool_list = ListAppend(@, task.cur),
                            !.cur = Len(pools) + 1]
            /\ UNCHANGED <<app_state, last_call, last_ok>>
       ELSE /\ app_state' = SetAttr(app_state, "pool_list",
                                    ListAppend(task.pool_list, task.cur))
            /\ task' = Idle
            /\ last_call' = OpenOutcome(TRUE, "", task.primary,
                                        ListAppend(task.pool_list, task.cur))
            /\ last_ok' = [valid |-> TRUE, primary |-> task.primary,
                           secondaries |->
                               ListAppend(task.pool_list, task.cur)]
            /\ UNCHANGED pools
    /\ UNCHANGED <<factories, conns, opens, close_log, refused, config, failures, server_path>>

\* Line 96: the await raises; connect_to_db has no handler.
OpenSecondaryRaises ==
    /\ task.pc = "await_secondary"
    /\ pools[task.cur].state = "failed"
    /\ task' = Idle
    /\ last_call' = OpenOutcome(FALSE, "secondary", task.primary,
                                task.pool_list)
    /\ UNCHANGED <<app_state, factories, pools, conns, opens, last_ok,
                   close_log, refused, config, failures, server_path>>

\* ------------------------------------------ close_db_connection (108-110)

\* Line 110 up to the await: app.state.pool.close() is called. With no
\* pool attribute the lookup raises and nothing is closed.
CloseCall ==
    /\ task.op = "none"
    /\ IF HasAttr(app_state, "pool")
       THEN /\ task' = [Idle EXCEPT !.op = "close", !.pc = "await_close",
                                    !.cur = app_state.pool]
            /\ pools' = IF pools[app_state.pool].state = "ready"
                        THEN [pools EXCEPT ![app_state.pool].state = "closing"]
                        ELSE pools
            /\ UNCHANGED last_call
       ELSE /\ last_call' = [NoCall EXCEPT !.op = "close",
                                           !.before = last_call.before]
            /\ UNCHANGED <<task, pools>>
    /\ UNCHANGED <<app_state, factories, conns, opens, last_ok, close_log,
                   refused, config, failures, server_path>>

\* Line 110: the await returns, and so does close_db_connection.
CloseReturns ==
    /\ task.pc = "await_close"
    /\ pools[task.cur].state = "closed"
    /\ task' = Idle
    /\ last_call' = [NoCall EXCEPT !.op = "close", !.ok = TRUE,
                                   !.primary = task.cur,
                                   !.before = last_call.before]
    /\ UNCHANGED <<app_state, factories, pools, conns, opens, last_ok,
                   close_log, refused, config, failures, server_path>>

\* ------------------------------------------------------------ the system

Init ==
    /\ app_state = << >>
    /\ factories = << >>
    /\ pools = << >>
    /\ conns = << >>
    /\ task = Idle
    /\ opens = 0
    /\ last_call = NoCall
    /\ last_ok = [valid |-> FALSE, primary |-> 0, secondaries |-> << >>]
    /\ close_log = << >>
    /\ refused = {}
    /\ failures = 0
    /\ server_path \in ServerPaths
    /\ config \in [schemas : SeqsUpTo(SchemaNames, MaxSchemas),
                   user_sql_files : SeqsUpTo(SqlFiles, MaxFiles)]

Next ==
    \/ \E c \in ConnIds : Issue(c)
    \/ \E c \in ConnIds : ReadTextRaises(c)
    \/ \E c \in ConnIds : JsonCodecSet(c)
    \/ \E c \in ConnIds : JsonbCodecSet(c)
    \/ \E c \in ConnIds : SearchPathSet(c)
    \/ \E c \in ConnIds : SearchPathRejected(c)
    \/ \E c \in ConnIds : UserSqlExecuted(c)
    \/ \E c \in ConnIds : CatalogExecuted(c)
    \/ \E c \in ConnIds : StatementRaises(c)
    \/ \E p \in PoolIds : NewConnection(p)
    \/ \E p \in PoolIds : PoolConnectFails(p)
    \/ \E c \in ConnIds : HookReturns(c)
    \/ \E c \in ConnIds : HookRaises(c)
    \/ \E c \in ConnIds : Acquire(c)
    \/ \E c \in ConnIds : Release(c)
    \/ \E p \in PoolIds : AcquireRefused(p)
    \/ \E p \in PoolIds : PoolClosed(p)
    \/ \E urls \in SeqsUpTo(SecondaryUrls, MaxSecondaries) : OpenCall(urls)
    \/ OpenPrimaryReturns
    \/ OpenPrimaryRaises
    \/ OpenSecondaryReturns
    \/ OpenSecondaryRaises
    \/ CloseCall
    \/ CloseReturns

Spec == Init /\ [][Next]_vars

\* ---------------------------------------------------------------- claims

IsPrefix(a, b) == Len(a) <= Len(b) /\ SubSeq(b, 1, Len(a)) = a

\* The statements of one initialization, in the order of lines 39-66.
ExpectedSteps(self) ==
    <<"set_type_codec:json", "set_type_codec:jsonb", "set_config:search_path">>
    \o self.user_sql_files \o <<DB_CATALOG_FILE>>

Hooked(c) == conns[c].init_calls > 0

\* C1: on every connection the statements handed over so far are the first
\* ones of: json codec, jsonb codec, search path, the user SQL files in
\* order, the catalog SQL; a statement is handed over only when every
\* earlier one has returned; a finished initialization has sent them all.
C1_StepsInOrder ==
    \A c \in ConnIds : Hooked(c) =>
        /\ IsPrefix(conns[c].sent, ExpectedSteps(Self(c)))
        /\ conns[c].acked <= Len(conns[c].sent)
        /\ Len(conns[c].sent) <= conns[c].acked + 1
        /\ conns[c].await => Len(conns[c].sent) = conns[c].acked + 1
        /\ conns[c].pc = "done" =>
              /\ conns[c].sent = ExpectedSteps(Self(c))
              /\ conns[c].acked = Len(conns[c].sent)

C1_Witness ==
    \E c \in ConnIds :
        /\ conns[c].pc = "done"
        /\ Len(Self(c).user_sql_files) = 2
        /\ Len(conns[c].sent) = 6

\* C2: a finished initialization has executed exactly the user SQL files,
\* each entry once and in listed order, and then the catalog SQL, once and
\* last; with no user files it has executed the catalog SQL alone.
C2_UserFilesThenCatalog ==
    \A c \in ConnIds : Hooked(c) /\ conns[c].pc = "done" =>
        conns[c].executed = Self(c).user_sql_files \o <<DB_CATALOG_FILE>>

C2_Witness ==
    \E c \in ConnIds :
        /\ conns[c].pc = "done"
        /\ Len(Self(c).user_sql_files) = 2
        /\ Self(c).user_sql_files[1] # Self(c).user_sql_files[2]
        /\ Len(conns[c].executed) = 3

\* C3: an initialization in which a step failed has ended with an error:
\* it is never a success, no statement after the failing step was handed
\* over, every earlier step had returned, and the catalog SQL was not
\* executed on that connection.
C3_FailureAborts ==
    \A c \in ConnIds : conns[c].failed_at > 0 =>
        /\ conns[c].pc = "raised"
        /\ conns[c].status \in {"init", "discarded"}
        /\ ~conns[c].await
        /\ conns[c].acked = conns[c].failed_at - 1
        /\ Len(conns[c].sent) \in {conns[c].failed_at - 1, conns[c].failed_at}
        /\ IsPrefix(conns[c].sent, ExpectedSteps(Self(c)))
        /\ \A k \in 1..Len(conns[c].executed) :
              conns[c].executed[k] # DB_CATALOG_FILE
        /\ IsPrefix(conns[c].executed, Self(c).user_sql_files)

\* A user SQL file failed after an earlier one had been executed.
C3_Witness ==
    \E c \in ConnIds :
        /\ conns[c].pc = "raised"
        /\ conns[c].status = "discarded"
        /\ conns[c].failed_at = 5
        /\ Len(conns[c].executed) = 1

\* C4: after a finished initialization a probe of the search path returns
\* pg_temp, then each configured schema in order, then the elements of the
\* server's earlier search path in order.
C4_SearchPathPrefixed ==
    \A c \in ConnIds : Hooked(c) /\ conns[c].pc = "done" =>
        ProbePath(conns[c].search_path)
            = <<PG_TEMP>> \o Self(c).schemas \o ProbePath(server_path)

\* C5: when connect_to_db has failed while creating a secondary pool, the
\* primary pool it created is closed and app.state holds no open primary.
C5_PrimaryClosedOnSecondaryFailure ==
    ( /\ task.op = "none"
      /\ last_call.op = "open"
      /\ ~last_call.ok
      /\ last_call.stage = "secondary" ) =>
        /\ pools[last_call.primary].state = "closed"
        /\ HasAttr(app_state, "pool") =>
              pools[app_state.pool].state # "ready"

\* C6: when close_db_connection has returned after a successful
\* connect_to_db, the primary pool and every secondary pool of that call
\* are closed, the primary first and the secondaries after it in list
\* order.
C6_CloseClosesAll ==
    ( /\ task.op = "none"
      /\ last_call.op = "close"
      /\ last_call.ok
      /\ last_ok.valid ) =>
        /\ pools[last_ok.primary].state = "closed"
        /\ \A k \in 1..Len(last_ok.secondaries) :
              pools[last_ok.secondaries[k]].state = "closed"
        /\ \E n \in 0..Len(close_log) :
              SubSeq(close_log, n + 1, Len(close_log))
                  = <<last_ok.primary>> \o last_ok.secondaries

PublishedSecondaries ==
    IF HasAttr(app_state, "pool_list") THEN app_state.pool_list ELSE << >>

\* C7: between calls, app.state holds the pools of the most recent
\* connect_to_db call that returned: its primary as pool, its secondaries
\* as pool_list, which is empty when that call was given no secondary URL.
C7_PoolSetIsLatest ==
    (task.op = "none" /\ last_ok.valid) =>
        /\ HasAttr(app_state, "pool")
        /\ app_state.pool = last_ok.primary
        /\ PublishedSecondaries = last_ok.secondaries

PoolSteps ==
    { <<"opening", "ready">>, <<"opening", "failed">>,
      <<"ready", "closing">>, <<"closing", "closed">> }

\* C8: a pool starts as opening and then only moves opening -> ready ->
\* closing -> closed, or opening -> failed; on a pool that is closing or
\* closed no connection is lent and no physical connection is opened.
C8_PoolLifecycle ==
    [][ /\ \A p \in 1..Len(pools') :
              IF p \in PoolIds
              THEN \/ pools'[p].state = pools[p].state
                   \/ <<pools[p].state, pools'[p].state>> \in PoolSteps
              ELSE pools'[p].state = "opening"
        /\ \A c \in 1..Len(conns') :
              IF c \in ConnIds
              THEN (conns'[c].status = "lent" /\ conns[c].status # "lent")
                      => pools[conns[c].pool].state = "ready"
              ELSE pools[conns'[c].pool].state \in {"opening", "ready"}
      ]_vars

\* A checkout was refused on a closed pool that had lent a connection.
C8_Witness ==
    \E p \in PoolIds :
        /\ pools[p].state = "closed"
        /\ p \in refused
        /\ \E c \in ConnsOf(p) : conns[c].status = "closed"

\* C9: a connection that is lent, or waits in a pool to be lent, has had
\* the init hook invoked on it exactly once, and the hook returned.
C9_LentOnlyInitialized ==
    \A c \in ConnIds : conns[c].status \in {"idle", "lent"} =>
        /\ conns[c].init_calls = 1
        /\ conns[c].pc = "done"
        /\ conns[c].failed_at = 0

\* A connection of a secondary pool is lent while another connection's
\* initialization has failed.
C9_Witness ==
    \E c, d \in ConnIds :
        /\ conns[c].status = "lent"
        /\ pools[conns[c].pool].url # "primary"
        /\ conns[d].status = "discarded"

\* C10: two connections initialized by the same connection_factory, from
\* the same server search path, have the same search path, the same
\* codecs and the same sequence of executed SQL files.
C10_SameFactorySameSession ==
    \A c, d \in ConnIds :
        ( /\ Hooked(c) /\ Hooked(d)
          /\ conns[c].pc = "done" /\ conns[d].pc = "done"
          /\ pools[conns[c].pool].init = pools[conns[d].pool].init ) =>
            /\ conns[c].search_path = conns[d].search_path
            /\ conns[c].codecs = conns[d].codecs
            /\ conns[c].executed = conns[d].executed

\* Two connections of different pools of one connect_to_db call.
C10_Witness ==
    \E c, d \in ConnIds :
        /\ c # d
        /\ conns[c].pc = "done" /\ conns[d].pc = "done"
        /\ conns[c].pool # conns[d].pool
        /\ pools[conns[c].pool].init = pools[conns[d].pool].init
        /\ Len(Self(c).schemas) > 0

\* The first pool of the connect_to_db call in progress.
FirstOfCall == IF task.pc = "await_primary" THEN task.cur ELSE task.primary

HookStepped(c) ==
    \/ conns'[c].sent # conns[c].sent
    \/ conns'[c].acked # conns[c].acked
    \/ conns'[c].pc # conns[c].pc

\* The session a connection initialized alone ends with.
AloneResult ==
    [search_path |->
        SearchPathValue(Factory(config.schemas, config.user_sql_files),
                        server_path),
     codecs |-> {"json", "jsonb"},
     executed |-> config.user_sql_files \o <<DB_CATALOG_FILE>>]

\* C12: however the initializations of different connections interleave,
\* each connection's statements are in the order of lines 39-66 and a
\* finished one has the session it would have if initialized alone; the
\* factories keep the schemas and user_sql_files they were built with; a
\* step of the hook on one connection changes no other connection, no
\* factory, no pool and nothing of app.state.
C12_InterleavedInitIsolated ==
    /\ [](/\ \A f \in 1..Len(factories) :
                factories[f] = Factory(config.schemas, config.user_sql_files)
          /\ \A c \in ConnIds : Hooked(c) =>
                /\ IsPrefix(conns[c].sent, ExpectedSteps(Self(c)))
                /\ conns[c].pc = "done" =>
                      /\ conns[c].search_path = AloneResult.search_path
                      /\ conns[c].codecs = AloneResult.codecs
                      /\ conns[c].executed = AloneResult.executed)
    /\ [][ \A c \in ConnIds : HookStepped(c) =>
              /\ \A d \in ConnIds \ {c} : conns'[d] = conns[d]
              /\ Len(conns') = Len(conns)
              /\ factories' = factories
              /\ pools' = pools
              /\ app_state' = app_state
         ]_vars

\* Two initializations are under way at once, at different statements,
\* after another connection has finished its own.
C12_Witness ==
    \E c, d, e \in ConnIds :
        /\ conns[c].status = "init" /\ conns[c].await
        /\ conns[d].status = "init" /\ conns[d].await
        /\ Len(conns[c].sent) > Len(conns[d].sent)
        /\ Len(conns[d].sent) >= 3
        /\ conns[e].pc = "done"
        /\ Len(config.schemas) > 0

\* C13: a primary pool that failed to open has no secondary pool created
\* after it; the connect_to_db call that awaited it has raised, and
\* app.state is what it was when the call began.
C13_PrimaryFailureLeavesState ==
    /\ \A p \in PoolIds :
          (pools[p].url = "primary" /\ pools[p].state = "failed") =>
              \A q \in PoolIds \ {p} : pools[q].init # pools[p].init
    /\ ( /\ task.op = "none"
         /\ last_call.op = "open"
         /\ pools[Len(pools)].url = "primary"
         /\ pools[Len(pools)].state = "failed" ) =>
            /\ ~last_call.ok
            /\ last_call.stage = "primary"
            /\ app_state = last_call.before

\* The second call's primary pool failed because the hook raised on its
\* first connection; app.state still holds the first call's pools.
C13_Witness ==
    /\ task.op = "none"
    /\ last_call.op = "open"
    /\ ~last_call.ok
    /\ last_call.stage = "primary"
    /\ HasAttr(app_state, "pool")
    /\ HasAttr(app_state, "pool_list")
    /\ \E c \in ConnsOf(Len(pools)) :
          conns[c].status = "discarded" /\ conns[c].pc = "raised"

\* The stage of the k-th statement of an initialization.
StageAt(self, k) ==
    IF k <= 2 THEN "codec"
    ELSE IF k = 3 THEN "search_path"
    ELSE IF k <= 3 + Len(self.user_sql_files) THEN "user_sql"
    ELSE "catalog"

\* C14: the error of a failed initialization names the stage that failed
\* and carries its cause, and when a user SQL file failed it names that
\* file.
C14_ErrorNamesStage ==
    \A c \in ConnIds : conns[c].failed_at > 0 =>
        /\ conns[c].error.cause # "none"
        /\ conns[c].error.stage = StageAt(Self(c), conns[c].failed_at)
        /\ StageAt(Self(c), conns[c].failed_at) = "user_sql" =>
              conns[c].error.resource
                  = ExpectedSteps(Self(c))[conns[c].failed_at]

\* The pool_list attribute of an app.state: absent, or its value.
PoolListOf(st) == IF HasAttr(st, "pool_list") THEN <<st.pool_list>> ELSE <<>>

\* One distinct pool per URL, in the order of the URLs.
CompleteList(list, urls, ps) ==
    /\ Len(list) = Len(urls)
    /\ \A k \in 1..Len(list) : ps[list[k]].url = urls[k]
    /\ \A j, k \in 1..Len(list) : list[j] = list[k] => j = k

\* C15: app.state.pool_list is never a partial list. While connect_to_db
\* runs it is what it was before the call; once the call is over it is
\* that value or the complete list of the call; and the only step that
\* changes it is the return of a call publishing its complete list.
C15_PoolListNeverPartial ==
    /\ [] /\ task.op = "open" =>
                 PoolListOf(app_state) = PoolListOf(last_call.before)
          /\ (task.op = "none" /\ last_call.op = "open") =>
                 \/ PoolListOf(app_state) = PoolListOf(last_call.before)
                 \/ /\ last_call.ok
                    /\ app_state.pool_list = last_call.secondaries
                    /\ CompleteList(app_state.pool_list, last_call.urls,
                                    pools)
    /\ [][ PoolListOf(app_state') # PoolListOf(app_state) =>
              /\ task.op = "open" /\ task'.op = "none"
              /\ task.i = Len(task.urls)
              /\ CompleteList(app_state'.pool_list, task.urls, pools') ]_vars

\* connect_to_db raised at its second secondary pool, the first one open,
\* and no list is published.
C15_Witness ==
    /\ task.op = "none" /\ last_call.op = "open"
    /\ ~last_call.ok /\ last_call.stage = "secondary"
    /\ Len(last_call.urls) = 2
    /\ Len(last_call.secondaries) = 1
    /\ pools[last_call.secondaries[1]].state = "ready"
    /\ ~HasAttr(app_state, "pool_list")

\* The pool is app.state.pool or an element of app.state.pool_list.
InAppState(p) ==
    \/ HasAttr(app_state, "pool") /\ app_state.pool = p
    \/ /\ HasAttr(app_state, "pool_list")
       /\ \E k \in 1..Len(app_state.pool_list) : app_state.pool_list[k] = p

\* C16: between calls, every pool that connect_to_db created and that is
\* still open is app.state.pool or an element of app.state.pool_list.
C16_NoOrphanedPool ==
    task.op = "none" =>
        \A p \in PoolIds : pools[p].state = "ready" => InAppState(p)
====
